---- MODULE Spec2Model ----
(***************************************************************************)
(* Interrupt-driven UART console of the RP2040 firmware: the UART0         *)
(* interrupt handler feeding INPUT_QUEUE, Uart::get_input draining it, and *)
(* the Terminal line editor (escape-sequence state machine, line buffer,   *)
(* cursor, bytes echoed to the remote terminal).                           *)
(***************************************************************************)
EXTENDS Integers, Sequences, FiniteSets, TLC

(***************************************************************************)
(* Bounds of the model.                                                    *)
(*   MAX_LINE_LENGTH  crate::constants::MAX_LINE_LENGTH, scaled down: the  *)
(*                    capacity parameter of current_line, of get_input's   *)
(*                    buffer and of INPUT_QUEUE.                           *)
(*   HwFifoDepth      depth of the receive FIFO of the UART peripheral.    *)
(*   MaxArrivals      number of bytes the remote end sends in one run.     *)
(***************************************************************************)
MAX_LINE_LENGTH == 3

HwFifoDepth == 2

MaxArrivals == 4

(***************************************************************************)
(* enum ASCIICode                                                          *)
(***************************************************************************)
Backspace == 8

Newline == 10

CarriageReturn == 13

Escape == 27

Space == 32

ArrowRight == 67

ArrowLeft == 68

LeftBracket == 91

Delete == 127

(* The arm 0x21..=0x7E of process_bytes. *)
PrintableLow == 33

PrintableHigh == 126

(***************************************************************************)
(* Bytes fed to the editor: every byte process_bytes names, one printable  *)
(* byte that is none of them (97, 'a'), one control byte no arm matches    *)
(* (0) and one byte above 0x7F (200).                                      *)
(***************************************************************************)
Bytes ==
    {0, Backspace, Newline, CarriageReturn, Escape, Space, ArrowRight,
     ArrowLeft, LeftBracket, 97, Delete, 200}

(* Bytes the remote end sends in the specification of the whole pipeline. *)
WireBytes == {97, Backspace, Escape}

(***************************************************************************)
(* ASCIIControl::as_bytes and TerminalTextColor::as_bytes                  *)
(***************************************************************************)
ClearToEndOfLine == <<48, 75>>

ClearScreen == <<50, 74>>

MoveCursorToTop == <<72>>

ClearFormatting == <<48, 109>>

(* Cli::new passes TerminalTextColor::Blue: b"34m" *)
prompt_color == <<51, 52, 109>>

(* b"[PICO]$ " *)
CLI_PROMPT == <<91, 80, 73, 67, 79, 93, 36, 32>>

(* The four lines of the banner box, UTF-8 encoded, each ending in CR LF. *)
CLI_BANNER ==
    <<226, 149, 148, 226, 149, 144, 226, 149, 144, 226, 149, 144, 226, 149, 144, 226,
       149, 144, 226, 149, 144, 226, 149, 144, 226, 149, 144, 226, 149, 144, 226, 149,
       144, 226, 149, 144, 226, 149, 144, 226, 149, 144, 226, 149, 144, 226, 149, 144,
       226, 149, 144, 226, 149, 144, 226, 149, 144, 226, 149, 144, 226, 149, 144, 226,
       149, 144, 226, 149, 144, 226, 149, 144, 226, 149, 144, 226, 149, 144, 226, 149,
       144, 226, 149, 151, 13, 10, 226, 149, 145, 32, 32, 32, 32, 32, 32, 32,
       32, 80, 73, 67, 79, 32, 83, 72, 69, 76, 76, 32, 32, 32, 32, 32,
       32, 32, 32, 226, 149, 145, 13, 10, 226, 149, 145, 32, 32, 69, 109, 98,
       101, 100, 100, 101, 100, 32, 85, 65, 82, 84, 32, 67, 111, 110, 115, 111,
       108, 101, 32, 32, 32, 226, 149, 145, 13, 10, 226, 149, 154, 226, 149, 144,
       226, 149, 144, 226, 149, 144, 226, 149, 144, 226, 149, 144, 226, 149, 144, 226,
       149, 144, 226, 149, 144, 226, 149, 144, 226, 149, 144, 226, 149, 144, 226, 149,
       144, 226, 149, 144, 226, 149, 144, 226, 149, 144, 226, 149, 144, 226, 149, 144,
       226, 149, 144, 226, 149, 144, 226, 149, 144, 226, 149, 144, 226, 149, 144, 226,
       149, 144, 226, 149, 144, 226, 149, 144, 226, 149, 144, 226, 149, 157, 13, 10>>

(***************************************************************************)
(* The editor as a value: the fields of struct Terminal that change, the   *)
(* bytes handed to Uart::putc so far (tx), and whether a panic was raised  *)
(* (the panic handler of main.rs loops forever).                           *)
(***************************************************************************)
NotReceived == "NotReceived"

Received == "Received"

BracketReceived == "BracketReceived"

EscapeState == {NotReceived, Received, BracketReceived}

(* Uart::putc: waits for room in the transmit FIFO, then writes the byte. *)
putc(st, c) == [st EXCEPT !.tx = Append(@, c)]

(* Uart::print *)
uart_print(st, s) == [st EXCEPT !.tx = @ \o s]

(* heapless::Vec::insert(index, element).unwrap(): shifts the tail right;  *)
(* panics when index > len or when the vector is full.                     *)
vec_insert(st, index, element) ==
    IF index > Len(st.current_line) \/ Len(st.current_line) >= MAX_LINE_LENGTH
    THEN [st EXCEPT !.panicked = TRUE]
    ELSE [st EXCEPT !.current_line =
              SubSeq(@, 1, index) \o <<element>> \o SubSeq(@, index + 1, Len(@))]

(* heapless::Vec::remove(index): shifts the tail left; panics when         *)
(* index >= len.                                                           *)
vec_remove(st, index) ==
    IF index < 0 \/ index >= Len(st.current_line)
    THEN [st EXCEPT !.panicked = TRUE]
    ELSE [st EXCEPT !.current_line =
              SubSeq(@, 1, index) \o SubSeq(@, index + 2, Len(@))]

print_escape_sequence(st) == putc(putc(st, Escape), LeftBracket)

print_control_sequence(st, control_sequence) ==
    uart_print(print_escape_sequence(st), control_sequence)

clear_screen(st) ==
    LET a == print_control_sequence(st, ClearScreen)
        b == print_control_sequence(a, MoveCursorToTop)
    IN  [b EXCEPT !.cursor = 0, !.current_line = <<>>]

apply_prompt_color(st) == uart_print(print_escape_sequence(st), prompt_color)

clear_formatting(st) == print_control_sequence(st, ClearFormatting)

print(st, s, with_prompt_color) ==
    clear_formatting(
        uart_print(IF with_prompt_color THEN apply_prompt_color(st) ELSE st, s))

print_prompt(st) == print(st, CLI_PROMPT, TRUE)

print_banner(st) == print(st, CLI_BANNER, TRUE)

(* Mutant: the left move lacks its guard. *)
move_cursor_left_unguarded(st) ==
    [putc(putc(putc(st, Escape), LeftBracket), ArrowLeft)
         EXCEPT !.cursor = @ - 1]

move_cursor_left(st) ==
    IF st.cursor > 0
    THEN [putc(putc(putc(st, Escape), LeftBracket), ArrowLeft)
              EXCEPT !.cursor = @ - 1]
    ELSE st

(* Mutant: the right move lacks its guard. *)
move_cursor_right_unguarded(st) ==
    [putc(putc(putc(st, Escape), LeftBracket), ArrowRight)
         EXCEPT !.cursor = @ + 1]

move_cursor_right(st) ==
    IF st.cursor < Len(st.current_line)
    THEN [putc(putc(putc(st, Escape), LeftBracket), ArrowRight)
              EXCEPT !.cursor = @ + 1]
    ELSE st

(* Mutant: the line is cleared and the prompt printed with no return. *)
clear_line_without_return(st) ==
    LET a == print_control_sequence(st, ClearToEndOfLine)
    IN  print_prompt([a EXCEPT !.cursor = 0])

clear_line(st) ==
    LET a == print_control_sequence(st, ClearToEndOfLine)
        b == putc(a, CarriageReturn)
    IN  print_prompt([b EXCEPT !.cursor = 0])

(* The loop `while self.cursor > original_cursor { self.move_cursor_left() }` *)
RECURSIVE move_left_until(_, _)
move_left_until(st, original_cursor) ==
    IF st.cursor > original_cursor
    THEN move_left_until(move_cursor_left(st), original_cursor)
    ELSE st

(* Mutant: only the bytes from the cursor onward are written again. *)
rewrite_line_from_cursor(st) ==
    LET original_cursor == st.cursor
        a == clear_line(st)
        rest == SubSeq(a.current_line, original_cursor + 1,
                       Len(a.current_line))
        b == uart_print(a, rest)
        c == [b EXCEPT !.cursor = Len(b.current_line)]
    IN  move_left_until(c, original_cursor)

rewrite_line(st) ==
    LET original_cursor == st.cursor
        a == clear_line(st)
        (* for &byte in current_line.iter().skip(cursor) { cursor += 1; putc(byte) } *)
        rest == SubSeq(a.current_line, a.cursor + 1, Len(a.current_line))
        b == [uart_print(a, rest) EXCEPT !.cursor = @ + Len(rest)]
        c == [b EXCEPT !.cursor = Len(b.current_line)]
    IN  move_left_until(c, original_cursor)

(* Mutant: the commit leaves the cursor where it was. *)
newline_keeps_cursor(st) ==
    LET a == putc(putc(st, CarriageReturn), Newline)
        b == print_prompt(a)
    IN  [b EXCEPT !.cursor = st.cursor]

newline(st) ==
    LET a == putc(putc(st, CarriageReturn), Newline)
        b == print_prompt(a)
    IN  [b EXCEPT !.cursor = 0]

(* Mutant: backspace removes the byte under the cursor. *)
backspace_at_cursor(st) ==
    IF st.cursor > 0
    THEN LET a == vec_remove(st, st.cursor)
         IN  IF a.panicked THEN a ELSE rewrite_line(move_cursor_left(a))
    ELSE st

backspace(st) ==
    IF st.cursor > 0
    THEN LET a == vec_remove(st, st.cursor - 1)
         IN  IF a.panicked THEN a ELSE rewrite_line(move_cursor_left(a))
    ELSE st

(* Mutant: space appends at the end of the line. *)
space_appends(st) ==
    IF Len(st.current_line) < MAX_LINE_LENGTH
    THEN LET a == vec_insert(st, Len(st.current_line), Space)
         IN  IF a.panicked THEN a ELSE rewrite_line(move_cursor_right(a))
    ELSE st

(* Mutant: the capacity test of space is off by one. *)
space_off_by_one(st) ==
    IF Len(st.current_line) <= MAX_LINE_LENGTH
    THEN LET a == vec_insert(st, st.cursor, Space)
         IN  IF a.panicked THEN a ELSE rewrite_line(move_cursor_right(a))
    ELSE st

space(st) ==
    IF Len(st.current_line) < MAX_LINE_LENGTH
    THEN LET a == vec_insert(st, st.cursor, Space)
         IN  IF a.panicked THEN a ELSE rewrite_line(move_cursor_right(a))
    ELSE st

(* Mutant: a printable byte redraws the line as a space does. *)
insert_character_redraws(st, data) ==
    IF Len(st.current_line) < MAX_LINE_LENGTH
    THEN LET a == vec_insert(st, st.cursor, data)
         IN  IF a.panicked THEN a ELSE rewrite_line(move_cursor_right(a))
    ELSE st

insert_character(st, data) ==
    IF Len(st.current_line) < MAX_LINE_LENGTH
    THEN LET a == vec_insert(st, st.cursor, data)
         IN  IF a.panicked THEN a ELSE [putc(a, data) EXCEPT !.cursor = @ + 1]
    ELSE st

(* Mutant: the printable range has no upper end. *)
not_received_arm_inserts_high(st, data) ==
    IF data = Escape
    THEN [st EXCEPT !.escape_state = Received]
    ELSE IF data = CarriageReturn \/ data = Newline
    THEN LET a == newline(st) IN [a EXCEPT !.current_line = <<>>]
    ELSE IF data = Backspace \/ data = Delete
    THEN backspace(st)
    ELSE IF data = Space
    THEN space(st)
    ELSE IF data >= PrintableLow
    THEN insert_character(st, data)
    ELSE st

(* Mutant: the printable range has no lower end. *)
not_received_arm_stores_control(st, data) ==
    IF data = Escape
    THEN [st EXCEPT !.escape_state = Received]
    ELSE IF data = CarriageReturn \/ data = Newline
    THEN LET a == newline(st) IN [a EXCEPT !.current_line = <<>>]
    ELSE IF data = Backspace \/ data = Delete
    THEN backspace(st)
    ELSE IF data = Space
    THEN space(st)
    ELSE IF data <= PrintableHigh
    THEN insert_character(st, data)
    ELSE st

(* The arm of process_bytes for escape_state == NotReceived. *)
not_received_arm(st, data) ==
    IF data = Escape
    THEN [st EXCEPT !.escape_state = Received]
    ELSE IF data = CarriageReturn \/ data = Newline
    THEN LET a == newline(st) IN [a EXCEPT !.current_line = <<>>]
    ELSE IF data = Backspace \/ data = Delete
    THEN backspace(st)
    ELSE IF data = Space
    THEN space(st)
    ELSE IF data >= PrintableLow /\ data <= PrintableHigh
    THEN insert_character(st, data)
    ELSE st

(* Mutant: a byte that aborts the sequence is then treated as input. *)
received_arm_reinterprets(st, data) ==
    IF data = LeftBracket
    THEN [st EXCEPT !.escape_state = BracketReceived]
    ELSE not_received_arm([st EXCEPT !.escape_state = NotReceived], data)

(* The arm of process_bytes for escape_state == Received. *)
received_arm(st, data) ==
    IF data = LeftBracket
    THEN [st EXCEPT !.escape_state = BracketReceived]
    ELSE [st EXCEPT !.escape_state = NotReceived]

(* Mutant: only an arrow byte ends the sequence. *)
bracket_received_arm_waits(st, data) ==
    IF data = ArrowLeft
    THEN [move_cursor_left(st) EXCEPT !.escape_state = NotReceived]
    ELSE IF data = ArrowRight
    THEN [move_cursor_right(st) EXCEPT !.escape_state = NotReceived]
    ELSE st

(* The arm of process_bytes for escape_state == BracketReceived. *)
bracket_received_arm(st, data) ==
    LET a == IF data = ArrowLeft THEN move_cursor_left(st)
             ELSE IF data = ArrowRight THEN move_cursor_right(st)
             ELSE st
    IN  [a EXCEPT !.escape_state = NotReceived]

(* One iteration of the loop of process_bytes. *)
process_byte(st, data) ==
    IF st.escape_state = NotReceived THEN not_received_arm(st, data)
    ELSE IF st.escape_state = Received THEN received_arm(st, data)
    ELSE bracket_received_arm(st, data)

(* Mutant: the escape state does not outlive the call. *)
RECURSIVE process_bytes_forgets_escape(_, _)
process_bytes_forgets_escape(st, buffer) ==
    IF buffer = <<>> \/ st.panicked
    THEN [st EXCEPT !.escape_state = NotReceived]
    ELSE process_bytes_forgets_escape(process_byte(st, Head(buffer)),
                                      Tail(buffer))

(* Terminal::process_bytes: the loop over the buffer; a panic ends it. *)
RECURSIVE process_bytes(_, _)
process_bytes(st, buffer) ==
    IF buffer = <<>> \/ st.panicked
    THEN st
    ELSE process_bytes(process_byte(st, Head(buffer)), Tail(buffer))

(* Mutant: the prompt is printed before the banner. *)
terminal_new_prompt_first ==
    LET editor == [cursor |-> 0, escape_state |-> NotReceived,
                   current_line |-> <<>>, tx |-> <<>>, panicked |-> FALSE]
    IN  print_banner(print_prompt(clear_screen(editor)))

(* Terminal::new, after Uart::new: the fields, then the startup output. *)
terminal_new ==
    LET editor == [cursor |-> 0, escape_state |-> NotReceived,
                   current_line |-> <<>>, tx |-> <<>>, panicked |-> FALSE]
    IN  print_prompt(print_banner(clear_screen(editor)))

(***************************************************************************)
(* The remote terminal: an overwrite-mode display of which the current row *)
(* and the cursor column are kept.  It interprets CR, LF, printable bytes  *)
(* and the sequences ESC [ <parameters> <final byte> the editor emits.     *)
(***************************************************************************)
term_write(t, c) ==
    LET pad == [i \in 1..(t.col - Len(t.row)) |-> Space]
        row == IF t.col < Len(t.row)
               THEN [t.row EXCEPT ![t.col + 1] = c]
               ELSE t.row \o pad \o <<c>>
    IN  [t EXCEPT !.row = row, !.col = @ + 1]

term_control(t, final) ==
    LET u == [t EXCEPT !.mode = "text", !.param = <<>>]
    IN  IF final = 74 /\ t.param = <<50>>           (* ESC [ 2 J *)
        THEN [u EXCEPT !.row = <<>>]
        ELSE IF final = 72                          (* ESC [ H *)
        THEN [u EXCEPT !.col = 0]
        ELSE IF final = 75 /\ t.param = <<48>>      (* ESC [ 0 K *)
        THEN [u EXCEPT !.row = SubSeq(@, 1, IF t.col < Len(@) THEN t.col ELSE Len(@))]
        ELSE IF final = ArrowRight                  (* ESC [ C *)
        THEN [u EXCEPT !.col = @ + 1]
        ELSE IF final = ArrowLeft                   (* ESC [ D *)
        THEN [u EXCEPT !.col = IF @ > 0 THEN @ - 1 ELSE 0]
        ELSE u                                      (* ESC [ ... m *)

term_byte(t, c) ==
    IF t.mode = "esc"
    THEN [t EXCEPT !.mode = IF c = LeftBracket THEN "csi" ELSE "text"]
    ELSE IF t.mode = "csi"
    THEN IF c >= 48 /\ c <= 63
         THEN [t EXCEPT !.param = Append(@, c)]
         ELSE term_control(t, c)
    ELSE IF c = Escape THEN [t EXCEPT !.mode = "esc"]
    ELSE IF c = CarriageReturn THEN [t EXCEPT !.col = 0]
    ELSE IF c = Newline THEN [t EXCEPT !.row = <<>>]
    ELSE IF c >= Space /\ c # Delete THEN term_write(t, c)
    ELSE t

(* The bytes in order.  The sequence is split in halves, and the first     *)
(* half is evaluated (the test on mid.col, which is never negative) before *)
(* the second is begun: this keeps the evaluation shallow on the long      *)
(* startup output.                                                         *)
RECURSIVE term_apply(_, _)
term_apply(t, bytes) ==
    IF bytes = <<>> THEN t
    ELSE IF Len(bytes) = 1 THEN term_byte(t, bytes[1])
    ELSE LET half == Len(bytes) \div 2
             mid == term_apply(t, SubSeq(bytes, 1, half))
         IN  IF mid.col >= 0
             THEN term_apply(mid, SubSeq(bytes, half + 1, Len(bytes)))
             ELSE mid

term_blank == [row |-> <<>>, col |-> 0, mode |-> "text", param |-> <<>>]

(* What the current row shows after the prompt. *)
term_text(t) == SubSeq(t.row, Len(CLI_PROMPT) + 1, Len(t.row))

(***************************************************************************)
(* INPUT_QUEUE: heapless::spsc::Queue<u8, MAX_LINE_LENGTH>.  The queue     *)
(* keeps one of its N slots free to tell full from empty, so it holds at   *)
(* most N - 1 elements; enqueue on a full queue returns Err and leaves the *)
(* queue as it was.                                                        *)
(***************************************************************************)
queue_capacity == MAX_LINE_LENGTH - 1

queue_is_full(q) == Len(q) >= queue_capacity

(* Mutant: enqueue on a full queue overwrites the oldest element. *)
queue_enqueue_overwrites(q, data) ==
    IF queue_is_full(q) THEN Append(Tail(q), data) ELSE Append(q, data)

(* queue.enqueue(data); the handler discards the Result. *)
queue_enqueue(q, data) == IF queue_is_full(q) THEN q ELSE Append(q, data)

(* Mutant: dequeue hands out the oldest element and leaves it queued. *)
queue_dequeue_keeps(q) == [byte |-> Head(q), rest |-> q]

(* Mutant: dequeue hands out the newest element. *)
queue_dequeue_newest(q) ==
    [byte |-> q[Len(q)], rest |-> SubSeq(q, 1, Len(q) - 1)]

(* queue.dequeue(): the oldest element, on a non-empty queue. *)
queue_dequeue(q) == [byte |-> Head(q), rest |-> Tail(q)]

(* Mutant: the buffer get_input fills is two bytes shorter. *)
vec_push_short(v, byte) ==
    IF Len(v) >= MAX_LINE_LENGTH - 2 THEN v ELSE Append(v, byte)

(* heapless::Vec<u8, MAX_LINE_LENGTH>::push; get_input discards the Result. *)
vec_push(v, byte) == IF Len(v) >= MAX_LINE_LENGTH THEN v ELSE Append(v, byte)

(***************************************************************************)
(* f32 arithmetic of config_baud_rate.  A float is [m, e], the value       *)
(* m / 2^e with m below 2^24 (e < 0 for integers above 2^24).  Every       *)
(* operation rounds its exact result to 24 significant bits, ties to even, *)
(* as IEEE 754 single precision does; the values met here are far from the *)
(* exponent limits.  The operators are defined for operands whose aligned  *)
(* mantissas stay below 2^31.                                              *)
(***************************************************************************)
RECURSIVE pow2(_)
pow2(k) == IF k = 0 THEN 1 ELSE 2 * pow2(k - 1)

RECURSIVE bit_length(_)
bit_length(n) == IF n = 0 THEN 0 ELSE 1 + bit_length(n \div 2)

f32_mantissa_bits == 24

(* n / 2^s rounded to the nearest integer, ties to even *)
round_shift(n, s) ==
    IF s = 0 THEN n
    ELSE LET q == n \div pow2(s)
             r == n % pow2(s)
             half == pow2(s - 1)
         IN  IF r > half \/ (r = half /\ q % 2 = 1) THEN q + 1 ELSE q

(* The float nearest to m / 2^e *)
f32_round(m, e) ==
    LET s == IF bit_length(m) > f32_mantissa_bits
             THEN bit_length(m) - f32_mantissa_bits ELSE 0
    IN  [m |-> round_shift(m, s), e |-> e - s]

(* n as f32, n: u32 *)
f32_from_u32(n) == f32_round(n, 0)

(* x as u32, x >= 0: the fraction is discarded *)
f32_to_u32(x) == IF x.e >= 0 THEN x.m \div pow2(x.e) ELSE x.m * pow2(-x.e)

f32_mul(x, y) == f32_round(x.m * y.m, x.e + y.e)

f32_align(x, e) == x.m * pow2(e - x.e)

f32_add(x, y) ==
    LET e == IF x.e >= y.e THEN x.e ELSE y.e
    IN  f32_round(f32_align(x, e) + f32_align(y, e), e)

(* x - y, for x >= y *)
f32_sub(x, y) ==
    LET e == IF x.e >= y.e THEN x.e ELSE y.e
    IN  f32_round(f32_align(x, e) - f32_align(y, e), e)

(* Long division: q, r and the number n of binary places produced so far;  *)
(* one more place per step until q has 24 significant bits.                *)
RECURSIVE div_places(_, _, _, _)
div_places(q, r, d, n) ==
    IF bit_length(q) >= f32_mantissa_bits THEN [q |-> q, r |-> r, n |-> n]
    ELSE IF 2 * r >= d THEN div_places(2 * q + 1, 2 * r - d, d, n + 1)
                       ELSE div_places(2 * q, 2 * r, d, n + 1)

(* x / y, for x > 0 and y > 0: the quotient of the mantissas to 24 bits,   *)
(* rounded on the remainder.                                               *)
f32_div(x, y) ==
    LET p == div_places(x.m \div y.m, x.m % y.m, y.m, 0)
        up == 2 * p.r > y.m \/ (2 * p.r = y.m /\ p.q % 2 = 1)
    IN  [m |-> IF up THEN p.q + 1 ELSE p.q, e |-> p.n + x.e - y.e]

(***************************************************************************)
(* Uart: the driver and the registers it programs.                         *)
(***************************************************************************)
UART_BAUD_RATE == 115200

(* The values config_baud_rate writes to UARTIBRD and UARTFBRD. *)
config_baud_rate(peripheral_clock_freq) ==
    LET sixteen == [m |-> 16, e |-> 0]
        sixty_four == [m |-> 64, e |-> 0]
        uart_rounding_factor == [m |-> 1, e |-> 1]
        peripheral_clock_freq_float == f32_from_u32(peripheral_clock_freq)
        uart_baud_rate_float == f32_from_u32(UART_BAUD_RATE)
        divisor == f32_div(peripheral_clock_freq_float,
                           f32_mul(sixteen, uart_baud_rate_float))
        baud_rate_divisor_integer == f32_to_u32(divisor)
        fraction == f32_sub(divisor, f32_from_u32(baud_rate_divisor_integer))
        fraction_bits ==
            f32_to_u32(f32_add(f32_mul(fraction, sixty_four),
                               uart_rounding_factor))
    IN  [uartibrd |-> baud_rate_divisor_integer, uartfbrd |-> fraction_bits]

(* Peripheral clocks Uart::new is constructed with: the crystal, the USB   *)
(* clock, the board's 125 MHz, and clocks one hertz around the points      *)
(* where the fractional divisor rounds up or wraps.                        *)
BoardClock == 125000000

ClockSet ==
    {12000000, 48000000, BoardClock, 133000000,
     123508799, 123508800, 124804799, 125323200, 125337599}

(***************************************************************************)
(* Uart::new as the sequence of register operations it performs, each      *)
(* method contributing its own, in program order.                          *)
(***************************************************************************)
reset_peripheral == <<"reset.uart0.clear_bit", "reset_done.uart0.wait">>

set_peripheral_enable(enable) ==
    <<IF enable THEN "uartcr.enable" ELSE "uartcr.disable">>

config_baud_rate_writes ==
    <<"uartibrd.write", "uartfbrd.write", "uartlcr_h.rewrite">>

config_word_length == <<"uartlcr_h.wlen">>

set_fifo_enable == <<"uartlcr_h.fen">>

use_two_stop_bits == <<"uartlcr_h.stp2">>

set_parity == <<"uartlcr_h.pen">>

config_parameters ==
    config_word_length \o set_fifo_enable \o use_two_stop_bits \o set_parity

config_interrupts ==
    <<"uarticr.clear", "uartimsc.rxim", "uartimsc.rtim", "nvic.unmask">>

(* Mutant: the interrupts are configured before the peripheral is enabled. *)
uart_new_interrupts_early ==
    reset_peripheral \o set_peripheral_enable(FALSE) \o config_interrupts
        \o config_baud_rate_writes \o config_parameters
        \o set_peripheral_enable(TRUE)

uart_new ==
    reset_peripheral \o set_peripheral_enable(FALSE)
        \o config_baud_rate_writes \o config_parameters
        \o set_peripheral_enable(TRUE) \o config_interrupts

(* UartWordLength::Eight as u8 *)
WordLengthEight == 3

(* The effect of one register operation on the driver's state u. *)
reg_op(u, op) ==
    LET done == [u EXCEPT !.log = Append(u.log, op)]
    IN  CASE op = "reset.uart0.clear_bit" -> [done EXCEPT !.reset = FALSE]
          [] op = "reset_done.uart0.wait" -> done
          [] op = "uartcr.disable" ->
                [done EXCEPT !.uarten = FALSE, !.txe = FALSE, !.rxe = FALSE]
          [] op = "uartcr.enable" ->
                [done EXCEPT !.uarten = TRUE, !.txe = TRUE, !.rxe = TRUE]
          [] op = "uartibrd.write" ->
                [done EXCEPT !.uartibrd =
                    config_baud_rate(u.peripheral_clock_freq).uartibrd]
          [] op = "uartfbrd.write" ->
                [done EXCEPT !.uartfbrd =
                    config_baud_rate(u.peripheral_clock_freq).uartfbrd]
          [] op = "uartlcr_h.rewrite" -> done
          [] op = "uartlcr_h.wlen" -> [done EXCEPT !.wlen = WordLengthEight]
          [] op = "uartlcr_h.fen" -> [done EXCEPT !.fen = TRUE]
          [] op = "uartlcr_h.stp2" -> [done EXCEPT !.stp2 = FALSE]
          [] op = "uartlcr_h.pen" -> [done EXCEPT !.pen = FALSE]
          [] op = "uarticr.clear" -> done
          [] op = "uartimsc.rxim" -> [done EXCEPT !.rxim = TRUE]
          [] op = "uartimsc.rtim" -> [done EXCEPT !.rtim = TRUE]
          [] op = "nvic.unmask" -> [done EXCEPT !.nvic = TRUE]

(* The registers as Uart::new finds them: the peripheral held in reset, or *)
(* already released and then possibly enabled; the other registers at      *)
(* their reset values.  was_reset records whether the peripheral has been  *)
(* in reset at any time since Uart::new was entered.                       *)
uart_at_reset(clock_hz, held, enabled) ==
    [pc |-> 1, peripheral_clock_freq |-> clock_hz,
     reset |-> held, reset_done |-> ~held, was_reset |-> held,
     uarten |-> enabled, txe |-> enabled, rxe |-> enabled,
     uartibrd |-> 0, uartfbrd |-> 0,
     wlen |-> 0, fen |-> FALSE, stp2 |-> FALSE, pen |-> FALSE,
     rxim |-> FALSE, rtim |-> FALSE, nvic |-> FALSE, log |-> <<>>]

(* Uart::new run to its end, the reset having completed. *)
RECURSIVE uart_run(_, _)
uart_run(u, ops) ==
    IF ops = <<>> THEN u
    ELSE LET v == reg_op(u, Head(ops))
         IN  uart_run([v EXCEPT !.pc = u.pc + 1, !.reset_done = ~v.reset],
                      Tail(ops))

uart_constructed ==
    uart_run(uart_at_reset(BoardClock, TRUE, FALSE), uart_new)

(***************************************************************************)
(* State.                                                                  *)
(*  Hardware:   rx_fifo   receive FIFO of UART0 (UARTDR reads its head)    *)
(*              ris       raw interrupt status, a subset of {"RX", "RT"};  *)
(*                        both are unmasked by config_interrupts           *)
(*              primask   interrupts disabled (inside cortex_m's `free`)   *)
(*  Handler:    isr_pc, isr_mis (UARTMIS as read on entry), isr_data       *)
(*  Shared:     queue     INPUT_QUEUE                                      *)
(*  Foreground: fg_pc, buffer (the Vec get_input builds and returns)       *)
(*  Editor:     cursor, escape_state, current_line, panicked               *)
(*  Output:     uart_tx   bytes written by the last call that printed      *)
(*              screen    the remote terminal after those bytes            *)
(*  History:    arrived   every byte the receiver took, in order           *)
(*              enq_ok    for each byte read from UARTDR, whether its      *)
(*                        enqueue succeeded                                *)
(*              delivered concatenation of the buffers get_input returned  *)
(*              offered   bytes handed to enqueue since the last drain     *)
(*              drained_offer  `offered` as the last drain began           *)
(*              last_input     the buffer of the last process_bytes call   *)
(*              prev      cursor, escape_state, current_line before it     *)
(*              isr_entry while the handler runs, what it found on entry:  *)
(*                        the number of bytes read and arrived so far, the *)
(*                        receive FIFO                                     *)
(*              drain_start    INPUT_QUEUE as the drain began, until the   *)
(*                        buffer it returned is processed                  *)
(*  Driver:     uart      Uart and the registers it programs: pc is the    *)
(*                        position in Uart::new, log the operations done   *)
(***************************************************************************)
VARIABLES rx_fifo, ris, primask, isr_pc, isr_mis, isr_data, queue,
          fg_pc, buffer, cursor, escape_state, current_line, panicked,
          uart_tx, screen, arrived, enq_ok, delivered, offered,
          drained_offer, last_input, prev, isr_entry, drain_start, uart

hw_vars == <<rx_fifo, ris, arrived>>

isr_vars == <<isr_pc, isr_mis, isr_data>>

editor_vars ==
    <<cursor, escape_state, current_line, panicked, uart_tx, screen,
      last_input, prev>>

pipeline_vars_less_uart ==
    <<rx_fifo, ris, primask, isr_pc, isr_mis, isr_data, queue, fg_pc, buffer,
      arrived, enq_ok, delivered, offered, drained_offer, isr_entry,
      drain_start>>

pipeline_vars ==
    <<rx_fifo, ris, primask, isr_pc, isr_mis, isr_data, queue, fg_pc, buffer,
      arrived, enq_ok, delivered, offered, drained_offer, isr_entry,
      drain_start, uart>>

vars ==
    <<rx_fifo, ris, primask, isr_pc, isr_mis, isr_data, queue,
      fg_pc, buffer, cursor, escape_state, current_line, panicked,
      uart_tx, screen, arrived, enq_ok, delivered, offered,
      drained_offer, last_input, prev, isr_entry, drain_start, uart>>

(* The editor's fields as a value, with nothing printed yet. *)
Editor ==
    [cursor |-> cursor, escape_state |-> escape_state,
     current_line |-> current_line, tx |-> <<>>, panicked |-> panicked]

Snapshot ==
    [cursor |-> cursor, escape_state |-> escape_state,
     current_line |-> current_line]

(* The state once Cli::new has returned: the peripheral is configured, the *)
(* interrupts are unmasked, nothing was received, the startup output sent. *)
Init ==
    /\ rx_fifo = <<>>
    /\ ris = {}
    /\ primask = FALSE
    /\ isr_pc = "idle"
    /\ isr_mis = {}
    /\ isr_data = 0
    /\ queue = <<>>
    /\ fg_pc = "main"
    /\ buffer = <<>>
    /\ cursor = terminal_new.cursor
    /\ escape_state = terminal_new.escape_state
    /\ current_line = terminal_new.current_line
    /\ panicked = terminal_new.panicked
    /\ uart_tx = terminal_new.tx
    /\ screen = term_apply(term_blank, terminal_new.tx)
    /\ arrived = <<>>
    /\ enq_ok = <<>>
    /\ delivered = <<>>
    /\ offered = <<>>
    /\ drained_offer = <<>>
    /\ last_input = <<>>
    /\ prev = [cursor |-> 0, escape_state |-> NotReceived, current_line |-> <<>>]
    /\ isr_entry = [reads |-> 0, arrived |-> 0, rx_fifo |-> <<>>]
    /\ drain_start = <<>>
    /\ uart = uart_constructed

(***************************************************************************)
(* Hardware.                                                               *)
(***************************************************************************)
(* The receiver shifts a byte into its FIFO; the RX interrupt may assert   *)
(* (the FIFO level reached the trigger level).                             *)
HwArrive(b, raise) ==
    /\ Len(arrived) < MaxArrivals
    /\ Len(rx_fifo) < HwFifoDepth
    /\ rx_fifo' = Append(rx_fifo, b)
    /\ arrived' = Append(arrived, b)
    /\ ris' = IF raise THEN ris \cup {"RX"} ELSE ris
    /\ UNCHANGED <<primask, isr_vars, queue, fg_pc, buffer, editor_vars,
                   enq_ok, delivered, offered, drained_offer,
                   isr_entry, drain_start, uart>>

(* Data sat in the FIFO for 32 bit periods: the receive timeout asserts. *)
HwTimeout ==
    /\ rx_fifo # <<>>
    /\ "RT" \notin ris
    /\ ris' = ris \cup {"RT"}
    /\ UNCHANGED <<rx_fifo, arrived, primask, isr_vars, queue, fg_pc, buffer,
                   editor_vars, enq_ok, delivered, offered, drained_offer,
                   isr_entry, drain_start, uart>>

(***************************************************************************)
(* UART0_IRQ.  The handler preempts the foreground whenever an unmasked    *)
(* interrupt is pending and interrupts are enabled; it runs to completion. *)
(***************************************************************************)
IrqEntry ==
    /\ isr_pc = "idle"
    /\ ~primask
    /\ ris # {}
    /\ isr_mis' = ris
    /\ isr_entry' = [reads |-> Len(enq_ok), arrived |-> Len(arrived),
                     rx_fifo |-> rx_fifo]
    /\ isr_pc' = IF "RX" \in ris \/ "RT" \in ris THEN "test" ELSE "clear"
    /\ UNCHANGED <<hw_vars, primask, isr_data, queue, fg_pc, buffer,
                   editor_vars, enq_ok, delivered, offered, drained_offer,
                   drain_start, uart>>

(* Mutant: the handler reads one byte per invocation. *)
IrqTestOnce ==
    /\ isr_pc = "test"
    /\ isr_pc' = IF rx_fifo = <<>> \/ Len(enq_ok) > isr_entry.reads
                 THEN "clear" ELSE "read"
    /\ UNCHANGED <<hw_vars, primask, isr_mis, isr_data, queue, fg_pc, buffer,
                   editor_vars, enq_ok, delivered, offered, drained_offer,
                   isr_entry, drain_start, uart>>

(* is_rx_fifo_empty = uartfr.rxfe; the loop condition *)
IrqTest ==
    /\ isr_pc = "test"
    /\ isr_pc' = IF rx_fifo = <<>> THEN "clear" ELSE "read"
    /\ UNCHANGED <<hw_vars, primask, isr_mis, isr_data, queue, fg_pc, buffer,
                   editor_vars, enq_ok, delivered, offered, drained_offer,
                   isr_entry, drain_start, uart>>

(* data = uartdr.data *)
IrqRead ==
    /\ isr_pc = "read"
    /\ isr_data' = Head(rx_fifo)
    /\ rx_fifo' = Tail(rx_fifo)
    /\ isr_pc' = "enqueue"
    /\ UNCHANGED <<ris, arrived, primask, isr_mis, queue, fg_pc, buffer,
                   editor_vars, enq_ok, delivered, offered, drained_offer,
                   isr_entry, drain_start, uart>>

(* free(|cs| { let _ = queue.enqueue(data); }) *)
IrqEnqueue ==
    /\ isr_pc = "enqueue"
    /\ queue' = queue_enqueue(queue, isr_data)
    /\ enq_ok' = Append(enq_ok, ~queue_is_full(queue))
    /\ offered' = Append(offered, isr_data)
    /\ isr_pc' = "test"
    /\ UNCHANGED <<hw_vars, primask, isr_mis, isr_data, fg_pc, buffer,
                   editor_vars, delivered, drained_offer,
                   isr_entry, drain_start, uart>>

(* uarticr.write(0xFFFF) and return *)
IrqClear ==
    /\ isr_pc = "clear"
    /\ ris' = {}
    /\ isr_pc' = "idle"
    /\ isr_entry' = [reads |-> 0, arrived |-> 0, rx_fifo |-> <<>>]
    /\ UNCHANGED <<rx_fifo, arrived, primask, isr_mis, isr_data, queue, fg_pc,
                   buffer, editor_vars, enq_ok, delivered, offered,
                   drained_offer,
                   drain_start, uart>>

(***************************************************************************)
(* Foreground: Terminal::process_input = get_input, then process_bytes.    *)
(* The foreground runs only while the handler is not active.               *)
(***************************************************************************)
(* Mutant: the closure runs with interrupts enabled. *)
free_leaves_interrupts_enabled == FALSE

(* cortex_m::interrupt::free: whether the closure runs with interrupts off *)
free_disables_interrupts == TRUE

(* let mut buffer = Vec::new(); free(|cs| { ... *)
GetInputEnter ==
    /\ fg_pc = "main"
    /\ isr_pc = "idle"
    /\ ~panicked
    /\ buffer' = <<>>
    /\ primask' = free_disables_interrupts
    /\ drained_offer' = offered
    /\ offered' = <<>>
    /\ drain_start' = queue
    /\ fg_pc' = "drain"
    /\ UNCHANGED <<hw_vars, isr_vars, queue, editor_vars, enq_ok, delivered,
                   isr_entry, uart>>

(* while let Some(byte) = queue.dequeue() { let _ = buffer.push(byte); } *)
GetInputDequeue ==
    /\ fg_pc = "drain"
    /\ isr_pc = "idle"
    /\ queue # <<>>
    /\ buffer' = vec_push(buffer, queue_dequeue(queue).byte)
    /\ queue' = queue_dequeue(queue).rest
    /\ UNCHANGED <<hw_vars, primask, isr_vars, fg_pc, editor_vars, enq_ok,
                   delivered, offered, drained_offer,
                   isr_entry, drain_start, uart>>

(* dequeue() returned None: the closure ends, interrupts are restored and  *)
(* the buffer is returned.                                                 *)
GetInputExit ==
    /\ fg_pc = "drain"
    /\ isr_pc = "idle"
    /\ queue = <<>>
    /\ primask' = FALSE
    /\ delivered' = delivered \o buffer
    /\ fg_pc' = "process"
    /\ UNCHANGED <<hw_vars, isr_vars, queue, buffer, editor_vars, enq_ok,
                   offered, drained_offer,
                   isr_entry, drain_start, uart>>

(* The effect of process_bytes(bytes) on the editor, with the bytes it    *)
(* transmits.                                                              *)
EditorCall(bytes) ==
    LET r == process_bytes(Editor, bytes)
    IN  /\ cursor' = r.cursor
        /\ escape_state' = r.escape_state
        /\ current_line' = r.current_line
        /\ panicked' = r.panicked
        /\ uart_tx' = r.tx

(* The call is recorded: its buffer, and the editor before it. *)
Record(bytes) ==
    /\ last_input' = bytes
    /\ prev' = Snapshot

(* The remote terminal receives what the call transmitted. *)
Show == screen' = term_apply(screen, uart_tx')

(* self.process_bytes(&mut bytes) *)
ProcessBytes ==
    /\ fg_pc = "process"
    /\ isr_pc = "idle"
    /\ EditorCall(buffer)
    /\ Record(buffer)
    /\ Show
    /\ fg_pc' = "main"
    /\ drain_start' = <<>>
    /\ UNCHANGED <<hw_vars, primask, isr_vars, queue, buffer, enq_ok,
                   delivered, offered, drained_offer,
                   isr_entry, uart>>

Next ==
    \/ \E b \in WireBytes, raise \in BOOLEAN : HwArrive(b, raise)
    \/ HwTimeout
    \/ IrqEntry
    \/ IrqTest
    \/ IrqRead
    \/ IrqEnqueue
    \/ IrqClear
    \/ GetInputEnter
    \/ GetInputDequeue
    \/ GetInputExit
    \/ ProcessBytes

Spec == Init /\ [][Next]_vars

(***************************************************************************)
(* The handler under fairness: the same steps, the wire carrying two byte  *)
(* values (enough to tell the order of the bytes), and the processor       *)
(* executing the handler it has entered: every step of UART0_IRQ that is   *)
(* enabled is eventually taken.                                            *)
(***************************************************************************)
HandlerBytes == {97, Escape}

IrqStep == IrqTest \/ IrqRead \/ IrqEnqueue \/ IrqClear

NextHandler ==
    \/ \E b \in HandlerBytes, raise \in BOOLEAN : HwArrive(b, raise)
    \/ HwTimeout
    \/ IrqEntry
    \/ IrqStep
    \/ GetInputEnter
    \/ GetInputDequeue
    \/ GetInputExit
    \/ ProcessBytes

SpecHandler == Init /\ [][NextHandler]_vars /\ WF_vars(IrqStep)

(***************************************************************************)
(* The same steps with a foreground loop that keeps calling process_input: *)
(* every step of get_input and process_bytes that is enabled is eventually *)
(* taken, between the handler's invocations.                               *)
(***************************************************************************)
ProcessInputStep ==
    GetInputEnter \/ GetInputDequeue \/ GetInputExit \/ ProcessBytes

SpecDelivery ==
    Init /\ [][NextHandler]_vars /\ WF_vars(IrqStep) /\ WF_vars(ProcessInputStep)

(***************************************************************************)
(* The editor alone: process_bytes called on a one-byte buffer, for any    *)
(* byte (the buffers get_input returns when the bytes arrive one by one),  *)
(* each call recorded.  The remote terminal is not observed here.          *)
(***************************************************************************)
FeedByte(b) ==
    /\ ~panicked
    /\ EditorCall(<<b>>)
    /\ Record(<<b>>)
    /\ UNCHANGED <<screen, pipeline_vars>>

NextEditor == \E b \in Bytes : FeedByte(b)

SpecEditor == Init /\ [][NextEditor]_vars

(***************************************************************************)
(* The editor and the remote terminal: the same calls, and the terminal    *)
(* applying the bytes each call transmits.  The calls are not recorded.    *)
(***************************************************************************)
ShowByte(b) ==
    /\ ~panicked
    /\ EditorCall(<<b>>)
    /\ Show
    /\ UNCHANGED <<last_input, prev, pipeline_vars>>

NextTerminal == \E b \in Bytes : ShowByte(b)

SpecTerminal == Init /\ [][NextTerminal]_vars

(***************************************************************************)
(* The editor fed in chunks.  A line of 'a's is typed first; the editor as *)
(* it then stands is kept in prev.  From there a stream that fits one      *)
(* buffer (MAX_LINE_LENGTH bytes) is fed in successive process_bytes calls *)
(* of any lengths: delivered is the stream fed so far, and uart_tx here    *)
(* collects what all those calls transmitted.                              *)
(***************************************************************************)
ChunkBytes == {Escape, LeftBracket, ArrowLeft, Backspace, Space}

Prepare ==
    /\ delivered = <<>>
    /\ ~panicked
    /\ EditorCall(<<97>>)
    /\ prev' = [cursor |-> cursor', escape_state |-> escape_state',
                current_line |-> current_line']
    /\ UNCHANGED <<hw_vars, primask, isr_vars, queue, fg_pc, buffer, screen,
                   enq_ok, delivered, offered, drained_offer, last_input,
                   isr_entry, drain_start, uart>>

FeedChunk(bytes) ==
    /\ Len(delivered) + Len(bytes) <= MAX_LINE_LENGTH
    /\ ~panicked
    /\ LET sent == IF delivered = <<>> THEN <<>> ELSE uart_tx
           r == process_bytes([Editor EXCEPT !.tx = sent], bytes)
       IN  /\ cursor' = r.cursor
           /\ escape_state' = r.escape_state
           /\ current_line' = r.current_line
           /\ panicked' = r.panicked
           /\ uart_tx' = r.tx
    /\ delivered' = delivered \o bytes
    /\ UNCHANGED <<hw_vars, primask, isr_vars, queue, fg_pc, buffer, screen,
                   enq_ok, offered, drained_offer, last_input, prev,
                   isr_entry, drain_start, uart>>

NextChunks ==
    \/ Prepare
    \/ \E n \in 1..MAX_LINE_LENGTH :
          \E bytes \in [1..n -> ChunkBytes] : FeedChunk(bytes)

SpecChunks == Init /\ [][NextChunks]_vars

(***************************************************************************)
(* Construction: Terminal::new calls Uart::new, one register operation at  *)
(* a time, for any peripheral clock, then prints the startup output.       *)
(* Nothing is received until the constructor has returned.                 *)
(***************************************************************************)
InitBoot ==
    /\ rx_fifo = <<>>
    /\ ris = {}
    /\ primask = FALSE
    /\ isr_pc = "idle"
    /\ isr_mis = {}
    /\ isr_data = 0
    /\ queue = <<>>
    /\ fg_pc = "boot"
    /\ buffer = <<>>
    /\ cursor = 0
    /\ escape_state = NotReceived
    /\ current_line = <<>>
    /\ panicked = FALSE
    /\ uart_tx = <<>>
    /\ screen = term_blank
    /\ arrived = <<>>
    /\ enq_ok = <<>>
    /\ delivered = <<>>
    /\ offered = <<>>
    /\ drained_offer = <<>>
    /\ last_input = <<>>
    /\ prev = [cursor |-> 0, escape_state |-> NotReceived, current_line |-> <<>>]
    /\ isr_entry = [reads |-> 0, arrived |-> 0, rx_fifo |-> <<>>]
    /\ drain_start = <<>>
    /\ \E clock_hz \in ClockSet, held \in BOOLEAN, enabled \in BOOLEAN :
            /\ held => ~enabled
            /\ uart = uart_at_reset(clock_hz, held, enabled)

(* The next register operation of Uart::new; the wait loop of              *)
(* reset_peripheral is left once RESET_DONE.uart0 reads as set.            *)
UartNewStep ==
    /\ fg_pc = "boot"
    /\ uart.pc <= Len(uart_new)
    /\ uart_new[uart.pc] = "reset_done.uart0.wait" => uart.reset_done
    /\ uart' = [reg_op(uart, uart_new[uart.pc]) EXCEPT !.pc = uart.pc + 1]
    /\ UNCHANGED <<pipeline_vars_less_uart, editor_vars>>

(* The reset controller reports the peripheral out of reset. *)
HwResetDone ==
    /\ ~uart.reset
    /\ ~uart.reset_done
    /\ uart' = [uart EXCEPT !.reset_done = TRUE]
    /\ UNCHANGED <<pipeline_vars_less_uart, editor_vars>>

(* The rest of Terminal::new: the fields, then clear_screen, print_banner  *)
(* and print_prompt.                                                       *)
TerminalNew ==
    /\ fg_pc = "boot"
    /\ uart.pc > Len(uart_new)
    /\ cursor' = terminal_new.cursor
    /\ escape_state' = terminal_new.escape_state
    /\ current_line' = terminal_new.current_line
    /\ panicked' = terminal_new.panicked
    /\ uart_tx' = terminal_new.tx
    /\ Show
    /\ fg_pc' = "main"
    /\ UNCHANGED <<hw_vars, primask, isr_vars, queue, buffer, enq_ok,
                   delivered, offered, drained_offer, last_input, prev,
                   isr_entry, drain_start, uart>>

NextBoot ==
    \/ UartNewStep
    \/ HwResetDone
    \/ TerminalNew

SpecBoot == InitBoot /\ [][NextBoot]_vars

(***************************************************************************)
(* Helpers of the properties.                                              *)
(***************************************************************************)
IsPrefix(s, u) == Len(s) <= Len(u) /\ SubSeq(u, 1, Len(s)) = s

(* The elements of s whose mark in ok is TRUE, in order. *)
RECURSIVE Kept(_, _)
Kept(s, ok) ==
    IF ok = <<>> THEN <<>>
    ELSE (IF Head(ok) THEN <<Head(s)>> ELSE <<>>) \o Kept(Tail(s), Tail(ok))

(* Bytes dequeued by a drain in progress, then the bytes still queued. *)
InFlight == (IF fg_pc = "drain" THEN buffer ELSE <<>>) \o queue

Printable == {b \in Bytes : b >= PrintableLow /\ b <= PrintableHigh}

Erasers == {Backspace, Delete}

RECURSIVE Repeat(_, _)
Repeat(s, k) == IF k = 0 THEN <<>> ELSE s \o Repeat(s, k - 1)

(* ESC [ <code> m, the prompt, ESC [ 0 m *)
PromptRendering == <<27, 91, 51, 52, 109>> \o CLI_PROMPT \o <<27, 91, 48, 109>>

(* The last call was process_bytes on the single byte b, made in escape    *)
(* state e.                                                                *)
Fed(e, b) == prev.escape_state = e /\ last_input = <<b>>

EditorUnchanged == cursor = prev.cursor /\ current_line = prev.current_line

(***************************************************************************)
(* C1. Under every interleaving of the handler with get_input, the buffers *)
(* get_input returned, concatenated, followed by the bytes still queued,   *)
(* are the bytes read from the receiver, in arrival order, less exactly    *)
(* those whose enqueue failed; the handler reads the receiver in arrival   *)
(* order; and if no enqueue failed, what was returned is a prefix of the   *)
(* arrival sequence.                                                       *)
(***************************************************************************)
C1_DeliveryOrder ==
    LET read == SubSeq(arrived, 1, Len(enq_ok))
        held == IF isr_pc = "enqueue" THEN <<isr_data>> ELSE <<>>
    IN  /\ Len(enq_ok) <= Len(arrived)
        /\ arrived = read \o held \o rx_fifo
        /\ delivered \o InFlight = Kept(read, enq_ok)
        /\ (\A i \in 1..Len(enq_ok) : enq_ok[i]) => IsPrefix(delivered, arrived)

(* A byte was dropped and a later byte was returned after it, by a second  *)
(* call of get_input.                                                      *)
C1_Witness ==
    /\ \E i \in 1..Len(enq_ok) : ~enq_ok[i]
    /\ Len(delivered) >= 3
    /\ ~IsPrefix(delivered, arrived)
    /\ fg_pc = "main"

(***************************************************************************)
(* C2. Queue order: when at most MAX_LINE_LENGTH bytes were enqueued into  *)
(* the empty queue with no drain in between, the next get_input returns    *)
(* exactly those bytes in order, and leaves the queue empty.               *)
(***************************************************************************)
C2_QueueOrder ==
    (fg_pc = "process" /\ Len(drained_offer) <= MAX_LINE_LENGTH)
        => /\ buffer = drained_offer
           /\ (offered = <<>> => queue = <<>>)

(***************************************************************************)
(* C3. Queue overflow: when more than MAX_LINE_LENGTH bytes were enqueued  *)
(* into the empty queue with no drain in between, the next get_input       *)
(* returns exactly the first MAX_LINE_LENGTH of them, and nothing panics.  *)
(***************************************************************************)
C3_QueueOverflow ==
    (fg_pc = "process" /\ Len(drained_offer) > MAX_LINE_LENGTH)
        => /\ buffer = SubSeq(drained_offer, 1, MAX_LINE_LENGTH)
           /\ ~panicked

(***************************************************************************)
(* C4. Cursor bound: after every byte the editor processed, whatever the   *)
(* sequence of bytes, 0 <= cursor <= length of the line buffer.            *)
(***************************************************************************)
C4_CursorBound == 0 <= cursor /\ cursor <= Len(current_line)

(* A backspace in the middle of a full line has just moved the cursor. *)
C4_Witness ==
    /\ Fed(NotReceived, Backspace)
    /\ Len(prev.current_line) = MAX_LINE_LENGTH
    /\ prev.cursor = 2
    /\ cursor = 1
    /\ Len(current_line) = MAX_LINE_LENGTH - 1

(***************************************************************************)
(* C5. Display consistency: after every processed byte the remote terminal *)
(* shows the prompt followed by exactly the bytes of the line buffer.      *)
(***************************************************************************)
C5_DisplayEqualsLine ==
    /\ SubSeq(screen.row, 1, Len(CLI_PROMPT)) = CLI_PROMPT
    /\ term_text(screen) = current_line

(***************************************************************************)
(* C6. Escape abort: in escape state NotReceived, ESC changes the escape   *)
(* state to Received and nothing else; in Received, any byte other than    *)
(* '[' returns the escape state to NotReceived, leaves the line buffer and *)
(* the cursor unchanged and transmits nothing.  Hence ESC followed by such *)
(* a byte leaves the whole editor as it was and transmits nothing.         *)
(***************************************************************************)
C6_EscapeAbort ==
    /\ Fed(NotReceived, Escape)
           => escape_state = Received /\ EditorUnchanged /\ uart_tx = <<>>
    /\ \A b \in Bytes \ {LeftBracket} :
           Fed(Received, b)
               => escape_state = NotReceived /\ EditorUnchanged /\ uart_tx = <<>>
    /\ escape_state = NotReceived
           => \A b \in Bytes \ {LeftBracket} :
                  process_bytes(Editor, <<Escape, b>>) = Editor

(* A carriage return aborted an escape sequence over a non-empty line,     *)
(* which it did not commit.                                                *)
C6_Witness ==
    /\ Fed(Received, CarriageReturn)
    /\ escape_state = NotReceived
    /\ current_line # <<>>
    /\ cursor > 0

(***************************************************************************)
(* C7. Arrow navigation saturates: ESC [ D moves the cursor left by one    *)
(* when it is above 0 and leaves it at 0 otherwise, transmitting nothing;  *)
(* ESC [ C moves it right by one when it is below the length n of the line *)
(* and leaves it at n otherwise, transmitting nothing; the line buffer     *)
(* never changes.  n + 1 lefts end at 0 and n + 1 rights end at n.         *)
(***************************************************************************)
C7_ArrowSaturates ==
    LET n == Len(current_line)
        left == process_bytes(Editor, <<Escape, LeftBracket, ArrowLeft>>)
        right == process_bytes(Editor, <<Escape, LeftBracket, ArrowRight>>)
        lefts == process_bytes(Editor,
                     Repeat(<<Escape, LeftBracket, ArrowLeft>>, n + 1))
        rights == process_bytes(Editor,
                      Repeat(<<Escape, LeftBracket, ArrowRight>>, n + 1))
    IN  /\ Fed(BracketReceived, ArrowLeft)
               => /\ cursor = IF prev.cursor > 0 THEN prev.cursor - 1 ELSE 0
                  /\ current_line = prev.current_line
                  /\ prev.cursor = 0 => uart_tx = <<>>
        /\ Fed(BracketReceived, ArrowRight)
               => /\ cursor = IF prev.cursor < Len(prev.current_line)
                              THEN prev.cursor + 1
                              ELSE Len(prev.current_line)
                  /\ current_line = prev.current_line
                  /\ prev.cursor = Len(prev.current_line) => uart_tx = <<>>
        /\ escape_state = NotReceived
               => /\ left.cursor = IF cursor > 0 THEN cursor - 1 ELSE 0
                  /\ right.cursor = IF cursor < n THEN cursor + 1 ELSE n
                  /\ left.current_line = current_line
                  /\ right.current_line = current_line
                  /\ cursor = 0 => left.tx = <<>>
                  /\ cursor = n => right.tx = <<>>
                  /\ lefts.cursor = 0 /\ lefts.current_line = current_line
                  /\ rights.cursor = n /\ rights.current_line = current_line

(* A left arrow arrived with the cursor already at 0 of a non-empty line. *)
C7_Witness ==
    /\ Fed(BracketReceived, ArrowLeft)
    /\ prev.cursor = 0
    /\ cursor = 0
    /\ Len(current_line) >= 2
    /\ uart_tx = <<>>

(***************************************************************************)
(* C8 as stated. Round trip: k printable bytes typed into the empty line,  *)
(* then k backspace or DEL bytes, leave the line empty and the cursor at   *)
(* 0; and a printable byte inserted at any cursor position, then one       *)
(* backspace or DEL, restore the line buffer and the cursor.               *)
(***************************************************************************)
RoundTripFromEmpty ==
    last_input = <<>>
        => \A k \in 0..MAX_LINE_LENGTH :
               \A typed \in [1..k -> Printable], erased \in [1..k -> Erasers] :
                   LET r == process_bytes(Editor, typed \o erased)
                   IN  r.current_line = <<>> /\ r.cursor = 0 /\ ~r.panicked

RestoredBy(b, d) ==
    LET r == process_bytes(Editor, <<b, d>>)
    IN  r.current_line = current_line /\ r.cursor = cursor /\ ~r.panicked

C8_RoundTripAnywhere ==
    /\ RoundTripFromEmpty
    /\ escape_state = NotReceived
           => \A b \in Printable, d \in Erasers : RestoredBy(b, d)

(***************************************************************************)
(* C8 amended. The same, the second part for a line buffer that is not     *)
(* full: on a full line the insert is ignored and the backspace removes a  *)
(* byte that was there before.                                             *)
(***************************************************************************)
C8_RoundTrip ==
    /\ RoundTripFromEmpty
    /\ (escape_state = NotReceived /\ Len(current_line) < MAX_LINE_LENGTH)
           => \A b \in Printable, d \in Erasers : RestoredBy(b, d)

(* A DEL has just removed, in the middle of the line, the byte before the  *)
(* cursor.                                                                 *)
C8_Witness ==
    /\ Fed(NotReceived, Delete)
    /\ prev.current_line = <<97, ArrowRight, 97>>
    /\ prev.cursor = 2
    /\ current_line = <<97, 97>>
    /\ cursor = 1

(***************************************************************************)
(* C9. Line commit: in escape state NotReceived, CR or LF, whatever the    *)
(* line buffer and the cursor, leaves the line buffer empty, the cursor at *)
(* 0 and the escape state NotReceived, and transmits exactly CR, LF, the   *)
(* prompt colour sequence, the prompt and the reset-formatting sequence.   *)
(***************************************************************************)
C9_LineCommit ==
    \A b \in {CarriageReturn, Newline} :
        Fed(NotReceived, b)
            => /\ current_line = <<>>
               /\ cursor = 0
               /\ escape_state = NotReceived
               /\ uart_tx = <<13, 10>> \o PromptRendering

(* A LF committed a line of at least two bytes with the cursor inside it. *)
C9_Witness ==
    /\ Fed(NotReceived, Newline)
    /\ Len(prev.current_line) >= 2
    /\ prev.cursor > 0
    /\ prev.cursor < Len(prev.current_line)
    /\ current_line = <<>>
    /\ cursor = 0

(***************************************************************************)
(* C10. Line-length overflow: the line buffer never holds more than        *)
(* MAX_LINE_LENGTH bytes and no panic is raised; on a full line a space or *)
(* a printable byte received in NotReceived changes nothing and transmits  *)
(* nothing.                                                                *)
(***************************************************************************)
C10_LineLengthBound ==
    /\ Len(current_line) <= MAX_LINE_LENGTH
    /\ ~panicked
    /\ \A b \in Printable \cup {Space} :
           (Fed(NotReceived, b) /\ Len(prev.current_line) = MAX_LINE_LENGTH)
               => /\ EditorUnchanged
                  /\ escape_state = NotReceived
                  /\ uart_tx = <<>>

(* A space was received on a full line with the cursor inside it. *)
C10_Witness ==
    /\ Fed(NotReceived, Space)
    /\ Len(prev.current_line) = MAX_LINE_LENGTH
    /\ prev.cursor = 1
    /\ current_line = prev.current_line
    /\ cursor = 1

(***************************************************************************)
(* C11. Queue bound: under every interleaving of the handler's enqueues    *)
(* with the foreground's drains the queue never holds more than its        *)
(* capacity, which is at most MAX_LINE_LENGTH; and an enqueue on a full    *)
(* queue leaves the queue as it was, and changes nothing the foreground or *)
(* the editor can observe.                                                 *)
(***************************************************************************)
C11_QueueBound ==
    /\ [](Len(queue) <= queue_capacity /\ queue_capacity <= MAX_LINE_LENGTH)
    /\ [][(isr_pc = "enqueue" /\ isr_pc' = "test" /\ queue_is_full(queue))
            => /\ queue' = queue
               /\ UNCHANGED <<fg_pc, buffer, primask, editor_vars>>]_vars

(* The handler has just attempted an enqueue on the full queue, after an   *)
(* earlier drain had returned bytes.                                       *)
C11_Witness ==
    /\ isr_pc = "test"
    /\ enq_ok # <<>>
    /\ ~enq_ok[Len(enq_ok)]
    /\ Len(queue) = queue_capacity
    /\ delivered # <<>>

(***************************************************************************)
(* C12. Critical sections: while get_input drains the queue the handler is *)
(* not running, and the bytes dequeued so far followed by the bytes still  *)
(* queued are the queue as it was when the drain began (no enqueue takes   *)
(* effect during the drain); when the drain ends the queue is empty and    *)
(* the buffer returned is the queue as it was when the drain began.        *)
(***************************************************************************)
C12_CriticalSection ==
    /\ [](fg_pc = "drain" => /\ isr_pc = "idle"
                             /\ buffer \o queue = drain_start)
    /\ [][(fg_pc = "drain" /\ fg_pc' = "process")
            => queue' = <<>> /\ buffer' = drain_start]_vars

(* A drain is under way, one byte dequeued and one still queued, while the *)
(* receiver holds a byte and its interrupt is pending.                     *)
C12_Witness ==
    /\ fg_pc = "drain"
    /\ buffer # <<>>
    /\ queue # <<>>
    /\ rx_fifo # <<>>
    /\ ris # {}

(***************************************************************************)
(* C13. Escape state machine: the escape state is one of NotReceived,      *)
(* Received, BracketReceived, NotReceived at first.  A byte moves it from  *)
(* NotReceived to Received iff it is ESC and otherwise leaves it, from     *)
(* Received to BracketReceived iff it is '[' and otherwise to NotReceived, *)
(* and from BracketReceived always to NotReceived.  In BracketReceived,    *)
(* 'C' moves the cursor right by one iff cursor < length, 'D' moves it     *)
(* left by one iff cursor > 0, neither changes the line, and any other     *)
(* byte changes neither line nor cursor and emits nothing.                 *)
(***************************************************************************)
C13_EscapeMachine ==
    /\ escape_state \in EscapeState
    /\ last_input = <<>> => escape_state = NotReceived
    /\ \A b \in Bytes :
        /\ Fed(NotReceived, b) =>
              escape_state = (IF b = Escape THEN Received ELSE NotReceived)
        /\ Fed(Received, b) =>
              escape_state =
                  (IF b = LeftBracket THEN BracketReceived ELSE NotReceived)
        /\ Fed(BracketReceived, b) =>
              /\ escape_state = NotReceived
              /\ current_line = prev.current_line
              /\ b = ArrowRight =>
                    cursor = (IF prev.cursor < Len(prev.current_line)
                              THEN prev.cursor + 1 ELSE prev.cursor)
              /\ b = ArrowLeft =>
                    cursor = (IF prev.cursor > 0
                              THEN prev.cursor - 1 ELSE prev.cursor)
              /\ b \notin {ArrowRight, ArrowLeft} =>
                    cursor = prev.cursor /\ uart_tx = <<>>

(* A byte that is no arrow has just ended a sequence begun in the middle   *)
(* of a line.                                                              *)
C13_Witness ==
    /\ Fed(BracketReceived, 97)
    /\ escape_state = NotReceived
    /\ prev.cursor > 0
    /\ prev.cursor < Len(prev.current_line)

(***************************************************************************)
(* C14. Construction order: at every point of Uart::new the register       *)
(* operations done so far are a prefix of: release the reset, wait for     *)
(* RESET_DONE; disable the peripheral; write the integer divisor, the      *)
(* fractional divisor, re-write the line control register; set word        *)
(* length, FIFO enable, stop bits, parity; enable the peripheral with TX   *)
(* and RX; clear the pending interrupts, unmask RX, unmask RX timeout,     *)
(* unmask the line at the interrupt controller.  The wait is passed only   *)
(* once the reset is done, the peripheral is disabled from step 2 until    *)
(* step 5, and no receive interrupt is unmasked while the peripheral is    *)
(* disabled or before both divisors are written.                           *)
(***************************************************************************)
C14_ConstructionOrder ==
    LET order == <<"reset.uart0.clear_bit", "reset_done.uart0.wait",
                   "uartcr.disable",
                   "uartibrd.write", "uartfbrd.write", "uartlcr_h.rewrite",
                   "uartlcr_h.wlen", "uartlcr_h.fen", "uartlcr_h.stp2",
                   "uartlcr_h.pen",
                   "uartcr.enable",
                   "uarticr.clear", "uartimsc.rxim", "uartimsc.rtim",
                   "nvic.unmask">>
        did(op) == \E i \in 1..Len(uart.log) : uart.log[i] = op
    IN  /\ IsPrefix(uart.log, order)
        /\ did("reset_done.uart0.wait") => uart.reset_done /\ ~uart.reset
        /\ (did("uartcr.disable") /\ ~did("uartcr.enable")) => ~uart.uarten
        /\ (uart.rxim \/ uart.rtim \/ uart.nvic) =>
              /\ uart.uarten /\ uart.txe /\ uart.rxe
              /\ did("uartibrd.write") /\ did("uartfbrd.write")
              /\ did("uarticr.clear")
        /\ uart.pc > Len(order) =>
              /\ uart.log = order
              /\ uart.wlen = WordLengthEight
              /\ uart.fen /\ ~uart.stp2 /\ ~uart.pen
              /\ uart.rxim /\ uart.rtim /\ uart.nvic

(* Uart::new has returned, having found the peripheral released and        *)
(* enabled.                                                                *)
C14_Witness ==
    /\ uart.pc > Len(uart_new)
    /\ uart.nvic
    /\ uart.reset_done
    /\ uart.log[3] = "uartcr.disable"
    /\ fg_pc = "boot"

(***************************************************************************)
(* C15. Baud computation: once config_baud_rate has written both divisor   *)
(* registers, UARTIBRD holds floor(clock_hz / (16 * baud)) and UARTFBRD    *)
(* holds floor(fraction * 64 + 1/2), evaluated exactly in integers, for    *)
(* every clock of ClockSet; for 125 MHz the pair is (67, 52).              *)
(***************************************************************************)
C15_BaudDivisors ==
    LET clock_hz == uart.peripheral_clock_freq
        d == 16 * UART_BAUD_RATE
        integer_part == clock_hz \div d
        fractional_bits == (128 * (clock_hz % d) + d) \div (2 * d)
    IN  (\E i \in 1..Len(uart.log) : uart.log[i] = "uartfbrd.write") =>
            /\ uart.uartibrd = integer_part
            /\ uart.uartfbrd = fractional_bits
            /\ clock_hz = 125000000 =>
                  uart.uartibrd = 67 /\ uart.uartfbrd = 52

(***************************************************************************)
(* C16. Startup sequence: nothing is transmitted before Terminal::new has  *)
(* constructed the driver; once it has returned, what it transmitted is    *)
(* exactly ESC[2J, ESC[H, ESC[34m, the banner, ESC[0m, ESC[34m, the        *)
(* prompt, ESC[0m, the line buffer is empty, the cursor is 0 and the       *)
(* escape state is NotReceived.                                            *)
(***************************************************************************)
C16_StartupSequence ==
    /\ fg_pc = "boot" => uart_tx = <<>>
    /\ fg_pc = "main" =>
          /\ uart.pc > Len(uart_new)
          /\ uart_tx = <<27, 91, 50, 74>> \o <<27, 91, 72>>
                        \o <<27, 91, 51, 52, 109>> \o CLI_BANNER
                        \o <<27, 91, 48, 109>>
                        \o <<27, 91, 51, 52, 109>> \o CLI_PROMPT
                        \o <<27, 91, 48, 109>>
          /\ current_line = <<>>
          /\ cursor = 0
          /\ escape_state = NotReceived

(* Terminal::new has returned and the remote terminal shows the prompt. *)
C16_Witness ==
    /\ fg_pc = "main"
    /\ uart_tx # <<>>
    /\ screen.row = CLI_PROMPT

(* The editor as the last call found it. *)
PrevEditor ==
    [cursor |-> prev.cursor, escape_state |-> prev.escape_state,
     current_line |-> prev.current_line, tx |-> <<>>, panicked |-> FALSE]

(* ESC[0K, CR, the prompt in its colour, the bytes `shown`, then ESC[D     *)
(* once for each byte of `line` after position cur.                        *)
Redraw(shown, line, cur) ==
    <<27, 91, 48, 75>> \o <<CarriageReturn>> \o PromptRendering \o shown
        \o Repeat(<<27, 91, 68>>, Len(line) - cur)

C18_TailAppend ==
    \A b \in Printable :
        (Fed(NotReceived, b)
            /\ prev.cursor = Len(prev.current_line)
            /\ Len(prev.current_line) < MAX_LINE_LENGTH) =>
                /\ current_line = Append(prev.current_line, b)
                /\ cursor = prev.cursor + 1
                /\ uart_tx = <<b>>

(* 'a' has just been appended to a line of two bytes. *)
C18_Witness ==
    /\ Fed(NotReceived, 97)
    /\ prev.cursor = 2
    /\ Len(prev.current_line) = 2
    /\ Len(current_line) = 3

(***************************************************************************)
(* C19. Space versus printable insert: a space received in NotReceived on  *)
(* a line that is not full leaves the line, the cursor and the escape      *)
(* state as insert_character(0x20) would have left them (the byte inserted *)
(* at the old cursor, the cursor one further); the bytes transmitted       *)
(* differ: insert_character would send the byte alone, the space sends a   *)
(* cursor-right sequence and a redraw of the line, at the tail too.        *)
(***************************************************************************)
C19_SpaceAsInsert ==
    (Fed(NotReceived, Space) /\ Len(prev.current_line) < MAX_LINE_LENGTH) =>
        LET generic == insert_character(PrevEditor, Space)
        IN  /\ current_line = generic.current_line
            /\ cursor = generic.cursor
            /\ escape_state = generic.escape_state
            /\ current_line =
                  SubSeq(prev.current_line, 1, prev.cursor) \o <<Space>>
                    \o SubSeq(prev.current_line, prev.cursor + 1,
                              Len(prev.current_line))
            /\ cursor = prev.cursor + 1
            /\ generic.tx = <<Space>>
            /\ uart_tx # generic.tx
            /\ SubSeq(uart_tx, 4, 8) = <<27, 91, 48, 75, CarriageReturn>>
            /\ Len(uart_tx) >= 8 + Len(PromptRendering) + Len(current_line)

(* A space has just been inserted in the middle of a line. *)
C19_Witness ==
    /\ Fed(NotReceived, Space)
    /\ prev.cursor = 1
    /\ Len(prev.current_line) = 2
    /\ current_line[2] = Space

(* While the handler runs: the bytes it has read from UARTDR. *)
IrqTaken ==
    SubSeq(arrived, isr_entry.reads + 1,
           Len(enq_ok) + (IF isr_pc = "enqueue" THEN 1 ELSE 0))

(* While the handler runs: the bytes that arrived since it was entered. *)
IrqNewArrivals == SubSeq(arrived, isr_entry.arrived + 1, Len(arrived))

(***************************************************************************)
(* C20. Interrupt handler: on every invocation, for each cause (RX, RX     *)
(* timeout), the handler takes the bytes of the receive FIFO one at a time *)
(* in FIFO order (what it has taken, followed by the FIFO, is the FIFO as  *)
(* found on entry followed by the later arrivals) and hands each to        *)
(* enqueue in that order; the interrupt flags stay pending until the loop  *)
(* is left, the loop is left only on an empty FIFO, and the flags are      *)
(* cleared only by the last step.  With no arrival during the handler it   *)
(* reads at most HwFifoDepth bytes and reaches its end with the FIFO       *)
(* empty; and every invocation returns.                                    *)
(***************************************************************************)
C20_HandlerDrains ==
    /\ [](isr_pc # "idle" =>
            LET reads == Len(enq_ok) - isr_entry.reads
            IN  /\ isr_mis # {}
                /\ IrqTaken \o rx_fifo = isr_entry.rx_fifo \o IrqNewArrivals
                /\ reads <= Len(offered)
                /\ SubSeq(offered, Len(offered) - reads + 1, Len(offered))
                      = SubSeq(arrived, isr_entry.reads + 1, Len(enq_ok))
                /\ isr_pc # "clear" => isr_mis \subseteq ris
                /\ IrqNewArrivals = <<>> =>
                      /\ Len(IrqTaken) <= HwFifoDepth
                      /\ isr_pc = "clear" =>
                            /\ rx_fifo = <<>>
                            /\ IrqTaken = isr_entry.rx_fifo)
    /\ [][(isr_pc # "clear" /\ isr_pc' = "clear") => rx_fifo = <<>>]_vars
    /\ [][~(ris \subseteq ris') => (isr_pc = "clear" /\ ris' = {})]_vars
    /\ (isr_pc # "idle") ~> (isr_pc = "idle")

(* The handler, entered on the timeout alone, has read a full FIFO and is  *)
(* about to clear the flags.                                               *)
C20_Witness ==
    /\ isr_pc = "clear"
    /\ isr_mis = {"RT"}
    /\ Len(isr_entry.rx_fifo) = HwFifoDepth
    /\ IrqNewArrivals = <<>>
    /\ Len(enq_ok) - isr_entry.reads = HwFifoDepth

(* The byte values the NotReceived arm has no case for. *)
IgnoredBytes ==
    {b \in 0..255 :
        /\ b \notin {Escape, CarriageReturn, Newline, Backspace, Delete, Space}
        /\ ~(b >= PrintableLow /\ b <= PrintableHigh)}

(***************************************************************************)
(* C21. Ignored bytes: a byte received in NotReceived that is not ESC, CR, *)
(* LF, backspace, DEL, space or printable leaves the line, the cursor and  *)
(* the escape state as they were and transmits nothing: so it was for the  *)
(* byte just processed, and so it would be for each of the 0x00-0xFF       *)
(* values concerned in the present state.  A backspace or DEL received     *)
(* with the cursor at 0 changes nothing and transmits nothing either.      *)
(***************************************************************************)
C21_IgnoredBytes ==
    /\ \A b \in Bytes \cap IgnoredBytes :
          Fed(NotReceived, b) =>
              /\ EditorUnchanged
              /\ escape_state = NotReceived
              /\ uart_tx = <<>>
    /\ \A b \in Erasers :
          (Fed(NotReceived, b) /\ prev.cursor = 0) =>
              /\ EditorUnchanged
              /\ escape_state = NotReceived
              /\ uart_tx = <<>>
    /\ (escape_state = NotReceived /\ ~panicked) =>
          \A b \in IgnoredBytes : process_bytes(Editor, <<b>>) = Editor

(* Byte 0xC8 has just been received in the middle of a line. *)
C21_Witness ==
    /\ Fed(NotReceived, 200)
    /\ cursor = 1
    /\ Len(current_line) = 2

(* Uart::new has performed the register operation op. *)
UartDid(op) == \E i \in 1..Len(uart.log) : uart.log[i] = op

(***************************************************************************)
(* C22. Fractional divisor range: the value config_baud_rate writes to     *)
(* UARTFBRD fits the 6-bit field, 0 <= fractional_bits <= 63, for every    *)
(* clock of ClockSet, those whose fraction is at least 63.5/64 included.   *)
(***************************************************************************)
C22_FractionFits ==
    UartDid("uartfbrd.write") => uart.uartfbrd >= 0 /\ uart.uartfbrd <= 63

(***************************************************************************)
(* C23. Reset sequencing: when Uart::new releases the reset the peripheral *)
(* has been held in reset since the constructor was entered; the           *)
(* peripheral is neither disabled nor configured before RESET_DONE reads   *)
(* set; and the constructor returns only if RESET_DONE became set.         *)
(***************************************************************************)
C23_ResetSequence ==
    /\ UartDid("reset.uart0.clear_bit") => uart.was_reset
    /\ Len(uart.log) > Len(reset_peripheral) => uart.reset_done
    /\ uart.pc > Len(uart_new) => uart.reset_done /\ ~uart.reset

(***************************************************************************)
(* C24. Chunking independence: however a stream is split into successive   *)
(* process_bytes calls (between ESC and '[' and between '[' and the final  *)
(* byte included), the line, the cursor, the escape state and the bytes    *)
(* transmitted are those of one process_bytes call on the whole stream.    *)
(***************************************************************************)
C24_ChunkingIndependence ==
    delivered # <<>> =>
        LET whole == process_bytes(PrevEditor, delivered)
        IN  /\ current_line = whole.current_line
            /\ cursor = whole.cursor
            /\ escape_state = whole.escape_state
            /\ uart_tx = whole.tx

(* A left arrow has been fed to a line of two bytes, in one call or split  *)
(* anywhere, and has moved the cursor.                                     *)
C24_Witness ==
    /\ delivered = <<Escape, LeftBracket, ArrowLeft>>
    /\ prev.cursor = 2
    /\ cursor = 1
    /\ uart_tx = <<Escape, LeftBracket, ArrowLeft>>

(***************************************************************************)
(* C25. Remote cursor column: after startup and after every byte the       *)
(* editor processed (inserts, spaces, backspaces, arrows, commits, in any  *)
(* order), the cursor of the remote terminal, moved by the bytes           *)
(* transmitted, stands at column length(prompt) + cursor.                  *)
(***************************************************************************)
C25_RemoteCursorColumn == screen.col = Len(CLI_PROMPT) + cursor

(* The cursor stands in the middle of a full line after a redraw. *)
C25_Witness ==
    /\ Len(current_line) = MAX_LINE_LENGTH
    /\ cursor = 1
    /\ screen.col = Len(CLI_PROMPT) + 1
    /\ Len(uart_tx) > Len(PromptRendering)

(***************************************************************************)
(* C26. Lossless drain: the buffer get_input fills has room for as many    *)
(* bytes as the queue can hold, so during a drain every byte dequeued so   *)
(* far is in the buffer, in order, with room left for those still queued,  *)
(* and the buffer returned is exactly the sequence dequeued.               *)
(***************************************************************************)
C26_LosslessDrain ==
    /\ queue_capacity <= MAX_LINE_LENGTH
    /\ fg_pc = "drain" =>
          /\ Len(buffer) + Len(queue) <= MAX_LINE_LENGTH
          /\ Len(buffer) = Len(drain_start) - Len(queue)
          /\ IsPrefix(buffer, drain_start)
    /\ fg_pc = "process" =>
          /\ Len(buffer) = Len(drain_start)
          /\ \A i \in 1..Len(buffer) : buffer[i] = drain_start[i]

(* get_input has returned a buffer holding as many bytes as the queue can  *)
(* hold, a byte having been dropped by the handler before.                 *)
C26_Witness ==
    /\ fg_pc = "process"
    /\ Len(buffer) = queue_capacity
    /\ \E i \in 1..Len(enq_ok) : ~enq_ok[i]

(***************************************************************************)
(* C27. Buffer alphabet: whatever bytes the editor has processed, every    *)
(* byte of the line buffer lies in 0x20-0x7E: control bytes, ESC, the      *)
(* bytes of escape sequences and bytes from 0x7F up are never stored.      *)
(***************************************************************************)
C27_BufferAlphabet ==
    \A i \in 1..Len(current_line) :
        current_line[i] >= Space /\ current_line[i] <= PrintableHigh

(* A byte that ended an escape sequence was not stored in a line holding   *)
(* a space and a printable byte.                                           *)
C27_Witness ==
    /\ Fed(BracketReceived, 200)
    /\ Len(current_line) = 2
    /\ \E i \in 1..2 : current_line[i] = Space
    /\ \E i \in 1..2 : current_line[i] = 97

(* The bytes whose enqueue succeeded, in order. *)
Accepted == Kept(SubSeq(arrived, 1, Len(enq_ok)), enq_ok)

(* The bytes process_bytes has been called on, in order. *)
Processed ==
    SubSeq(delivered, 1,
           Len(delivered) - (IF fg_pc = "process" THEN Len(buffer) ELSE 0))

(***************************************************************************)
(* C28. Delivery liveness: with a foreground loop that keeps calling       *)
(* process_input, the bytes passed to process_bytes are at every moment a  *)
(* prefix of the bytes the handler enqueued (each at most once, in order), *)
(* and again and again every byte enqueued so far has been passed to       *)
(* process_bytes and the queue is empty: no accepted byte stays queued     *)
(* forever.                                                                *)
(***************************************************************************)
C28_DeliveryLiveness ==
    /\ [](IsPrefix(Processed, Accepted))
    /\ []<>(Processed = Accepted /\ queue = <<>>)

(* Three accepted bytes have been processed, over more than one call. *)
C28_Witness ==
    /\ fg_pc = "main"
    /\ Len(Accepted) >= 3
    /\ Processed = Accepted
    /\ queue = <<>>

====
